---- MODULE Spec2Model ----
(***************************************************************************)
(* Model of Traductor.py: the PPTX translator window (PPTXTranslatorApp)   *)
(* and its background worker (TranslatorThread).                           *)
(*                                                                         *)
(* The worker runs in its own thread and talks to the window only through  *)
(* the three signals progress(int), finished() and error(str); the window  *)
(* receives them as queued calls of update_progress, translation_finished  *)
(* and translation_error on the UI thread.                                 *)
(***************************************************************************)
EXTENDS Integers, Sequences, FiniteSets, TLC

VARIABLES
    input_file_label,   \* text of the input QLabel
    output_file_label,  \* text of the output QLabel
    source_lang,        \* current text of the "From" combo box
    target_lang,        \* current text of the "To" combo box
    progress_bar,       \* value of the QProgressBar
    translate_button,   \* TRUE iff the Translate button is enabled
    dialogs,            \* stack of open modal message boxes (top = last)
    threads,            \* every TranslatorThread created so far; self.thread is the last
    events,             \* signals emitted by workers, queued for the UI thread
    gestures,           \* the user's selections and clicks on Translate so far
    fs                  \* the file system: path -> file content

vars == <<input_file_label, output_file_label, source_lang, target_lang,
          progress_bar, translate_button, dialogs, threads, events, gestures, fs>>

ui_vars == <<input_file_label, output_file_label, source_lang, target_lang,
             progress_bar, translate_button, dialogs>>

(***************************************************************************)
(* Bounds of the model.                                                    *)
(***************************************************************************)
MaxSlides == 2      \* slides per document
MaxUnits == 2       \* shapes per document
MaxGestures == 4    \* selections (choosers, combo boxes) and clicks on Translate
MaxTotal == 50      \* shapes of the long single-slide documents of SpecPct

(***************************************************************************)
(* Program constants.                                                      *)
(***************************************************************************)
NoInputFile == "No input file selected"
NoOutputFile == "No output file selected"
Languages == {"en", "es"}           \* two of the ten codes the combo boxes offer
DefaultSource == "en"
DefaultTarget == "es"
Paths == {"a.pptx", "b.pptx"}       \* what the file choosers can return
Hundred == 100
MantissaBits == 52                  \* fraction bits of a Python float (binary64)

(***************************************************************************)
(* int(processed_shapes / total_shapes * 100) in Python.                   *)
(*                                                                         *)
(* "/" is binary64 division and "*" binary64 multiplication, each rounded  *)
(* to nearest, ties to even; int() truncates.  The two roundings are       *)
(* computed exactly, with the remainders of the long division instead of   *)
(* the 53-bit mantissas:                                                   *)
(*   x = fl(k / n) = (k * 2^p + d) / (n * 2^p),  p = 52 + e,               *)
(*   where 2^e * k / n is in [1, 2) and d is the rounding error of the     *)
(*   53-bit quotient (in units of 1 / n);                                  *)
(*   y = fl(100 * x) is 100 * x rounded to a multiple of 2^(s - p), where  *)
(*   s = 7 if 100 * x >= 128 * 2^(-e) and 6 otherwise;                     *)
(*   for an integer t, y >= t  iff  100 * x >= t - 2^(s - 1 - p).          *)
(***************************************************************************)
RECURSIVE Pow2(_)
Pow2(i) == IF i = 0 THEN 1 ELSE 2 * Pow2(i - 1)

RECURSIVE Exponent(_, _, _)
\* the least e with k * 2^e >= n
Exponent(k, n, e) == IF k * Pow2(e) >= n THEN e ELSE Exponent(k, n, e + 1)

RECURSIVE LongDivision(_, _, _, _)
\* i steps of the binary long division with divisor n from remainder r:
\* the final remainder and the last quotient bit
LongDivision(r, n, bit, i) ==
    IF i = 0 THEN [r |-> r, bit |-> bit]
    ELSE IF 2 * r >= n THEN LongDivision(2 * r - n, n, 1, i - 1)
         ELSE LongDivision(2 * r, n, 0, i - 1)

\* the rounding error d of fl(k / n), round to nearest, ties to even
DivisionError(k, n) ==
    LET e == Exponent(k, n, 0)
        q == LongDivision(k * Pow2(e) - n, n, 1, MantissaBits)
    IN  IF 2 * q.r > n \/ (2 * q.r = n /\ q.bit = 1) THEN n - q.r ELSE 0 - q.r

Percent(k, n) ==
    LET e == Exponent(k, n, 0)
        d == DivisionError(k, n)
        c == Hundred * k * Pow2(e) - 128 * n
        s == IF c > 0 \/ (c = 0 /\ d >= 0) THEN 7 ELSE 6
        q == (Hundred * k) \div n
    IN  IF (Hundred * k) % n # 0 THEN q
        ELSE IF Hundred * d + n * Pow2(s - 1) >= 0 THEN q ELSE q - 1

(***************************************************************************)
(* Documents.  A file is missing, corrupt (not a presentation) or a        *)
(* presentation: a sequence of slides, each a sequence of shapes.  A shape *)
(* either has a text attribute, or only a text_frame made of paragraphs,   *)
(* or neither (a picture, a group).                                        *)
(***************************************************************************)
ShapeTexts == {" ", "Hello"}
FrameParagraphs == {<<"">>, <<"Hello", "">>, <<"Hello", "Hello">>}

TextShape(t) == [kind |-> "text", text |-> t, paragraphs |-> <<>>]
FrameShape(ps) == [kind |-> "frame", text |-> "", paragraphs |-> ps]
Picture == [kind |-> "none", text |-> "", paragraphs |-> <<>>]

Shapes == {TextShape(t) : t \in ShapeTexts}
          \cup {FrameShape(ps) : ps \in FrameParagraphs}
          \cup {Picture}

RECURSIVE SumLen(_)
\* sum(len(slide.shapes) for slide in prs.slides)
SumLen(slides) ==
    IF slides = <<>> THEN 0 ELSE Len(Head(slides)) + SumLen(Tail(slides))

RECURSIVE Sum(_)
Sum(ns) == IF ns = <<>> THEN 0 ELSE Head(ns) + Sum(Tail(ns))

\* the shape counts of the slides of a document
Layouts ==
    {L \in UNION {[1..m -> 0..MaxUnits] : m \in 0..MaxSlides} : Sum(L) <= MaxUnits}

\* the document of layout L whose shapes are, in iteration order, those of f
DocOf(L, f) ==
    [s \in 1..Len(L) |-> [j \in 1..L[s] |-> f[Sum(SubSeq(L, 1, s - 1)) + j]]]

\* every document of at most MaxSlides slides and MaxUnits shapes
Docs == UNION {{DocOf(L, f) : f \in [1..Sum(L) -> Shapes]} : L \in Layouts}

\* the documents of the window's runs: no slide, or a slide with a picture
\* and a slide with a text box
WindowDocs == {<<>>, <<<<Picture>>, <<TextShape("Hello")>>>>}

MissingFile == [kind |-> "missing", slides |-> <<>>]
CorruptFile == [kind |-> "corrupt", slides |-> <<>>]
Pptx(slides) == [kind |-> "pptx", slides |-> slides]

\* str.strip(): the texts of the model are blank or have no outer blanks
Strip(t) == IF t \in {"", " "} THEN "" ELSE t

\* text_frame.text: the paragraphs joined by line breaks; only its
\* emptiness after strip() is used
FrameTextStripped(ps) ==
    IF \E j \in 1..Len(ps) : Strip(ps[j]) # "" THEN "text" ELSE ""

\* GoogleTranslator(source, target).translate(text) when it returns
Translate(source, target, text) ==
    IF source = target THEN text
    ELSE IF text = "Hello" /\ target = "es" THEN "Hola"
    ELSE IF text = "Hola" /\ target = "en" THEN "Hello"
    ELSE text

RECURSIVE Locate(_, _, _)
\* the slide and shape index of the pos-th shape in iteration order
\* (slides in order, shapes of a slide in order), from slide si on
Locate(slides, si, pos) ==
    IF pos <= Len(slides[si]) THEN [slide |-> si, shape |-> pos]
    ELSE Locate(slides, si + 1, pos - Len(slides[si]))

ShapeAt(slides, pos) ==
    LET at == Locate(slides, 1, pos) IN slides[at.slide][at.shape]

PutShape(slides, pos, shape) ==
    LET at == Locate(slides, 1, pos)
    IN  [slides EXCEPT ![at.slide] = [@ EXCEPT ![at.shape] = shape]]

(***************************************************************************)
(* Signals.  The class attribute finished (line 26) shadows the signal of  *)
(* the same name that QThread emits when run() returns: the window's slots *)
(* are connected to the three signals of the class, which only run() emits.*)
(***************************************************************************)
Progress(v) == [sig |-> "progress", value |-> v, message |-> ""]
Finished == [sig |-> "finished", value |-> 0, message |-> ""]
Error(m) == [sig |-> "error", value |-> 0, message |-> m]

IsTerminal(n) == n.sig \in {"finished", "error"}

(***************************************************************************)
(* TranslatorThread.                                                       *)
(***************************************************************************)
\* TranslatorThread.__init__
NewThread(input_file, output_file, source, target) ==
    [pc |-> "start",
     input_file |-> input_file, output_file |-> output_file,
     source |-> source, target |-> target,
     prs |-> <<>>, total_shapes |-> 0, processed_shapes |-> 0,
     \* history of the run, not program state:
     opened |-> <<>>,       \* the slides as Presentation() returned them
     emitted |-> <<>>,      \* the signals emitted, in order
     handled |-> <<>>,      \* the signals of this run the window has handled
     calls |-> <<>>,        \* per shape, the texts passed to translate
     caught |-> {},         \* positions of the shapes whose processing raised
     raised |-> "none",     \* the call whose exception reached line 66
     save_calls |-> 0]      \* calls of prs.save

\* prs.save was called and returned
Saved(th) == th.save_calls = 1 /\ th.raised # "save"

\* Emit with the call put at the front of the UI thread's queue
Emit_Front(th, i, n) ==
    /\ threads' = [threads EXCEPT ![i] = [th EXCEPT !.emitted = Append(@, n)]]
    /\ events' = <<[run |-> i, note |-> n]>> \o events

\* signal.emit(...) from the worker thread: a queued call on the UI thread
Emit(th, i, n) ==
    /\ threads' = [threads EXCEPT ![i] = [th EXCEPT !.emitted = Append(@, n)]]
    /\ events' = Append(events, [run |-> i, note |-> n])

\* WorkerStart with a failed open taken for an empty presentation
WorkerStart_IgnoreOpenFailure(i) ==
    /\ threads[i].pc = "start"
    /\ \E outcome \in {"ok", "translator_raises", "open_raises"} :
         LET th == threads[i]
             file == fs[th.input_file]
             failed == outcome = "open_raises" \/ file.kind # "pptx"
         IN  IF outcome = "translator_raises"
             THEN Emit([th EXCEPT !.pc = "done", !.raised = "translator"],
                       i, Error("TranslatorError"))
             ELSE /\ threads' = [threads EXCEPT ![i] =
                        [th EXCEPT !.pc = "loop",
                                   !.raised = IF failed THEN "open" ELSE "none",
                                   !.prs = IF failed THEN <<>> ELSE file.slides,
                                   !.opened = IF failed THEN <<>> ELSE file.slides,
                                   !.total_shapes =
                                       IF failed THEN 0 ELSE SumLen(file.slides),
                                   !.processed_shapes = 0]]
                  /\ events' = events
    /\ UNCHANGED <<ui_vars, gestures, fs>>

\* WorkerStart with a Progress(0) emitted once the presentation is open
WorkerStart_InitialProgress(i) ==
    /\ threads[i].pc = "start"
    /\ \E outcome \in {"ok", "translator_raises", "open_raises"} :
         LET th == threads[i]
             file == fs[th.input_file]
         IN  IF outcome = "translator_raises"
             THEN Emit([th EXCEPT !.pc = "done", !.raised = "translator"],
                       i, Error("TranslatorError"))
             ELSE IF outcome = "open_raises" \/ file.kind # "pptx"
             THEN Emit([th EXCEPT !.pc = "done", !.raised = "open"],
                       i, Error("OpenError"))
             ELSE Emit([th EXCEPT !.pc = "loop",
                                  !.prs = file.slides,
                                  !.opened = file.slides,
                                  !.total_shapes = SumLen(file.slides),
                                  !.processed_shapes = 0],
                       i, Progress(0))
    /\ UNCHANGED <<ui_vars, gestures, fs>>

\* lines 39-42: the translator, the presentation, the shape count
WorkerStart(i) ==
    /\ threads[i].pc = "start"
    /\ \E outcome \in {"ok", "translator_raises", "open_raises"} :
         LET th == threads[i]
             file == fs[th.input_file]
         IN  IF outcome = "translator_raises"
             THEN Emit([th EXCEPT !.pc = "done", !.raised = "translator"],
                       i, Error("TranslatorError"))
             ELSE IF outcome = "open_raises" \/ file.kind # "pptx"
             THEN Emit([th EXCEPT !.pc = "done", !.raised = "open"],
                       i, Error("OpenError"))
             ELSE /\ threads' = [threads EXCEPT ![i] =
                        [th EXCEPT !.pc = "loop",
                                   !.prs = file.slides,
                                   !.opened = file.slides,
                                   !.total_shapes = SumLen(file.slides),
                                   !.processed_shapes = 0]]
                  /\ events' = events
    /\ UNCHANGED <<ui_vars, gestures, fs>>

\* TryShape with the translator's result dropped instead of assigned back
TryShape_NoAssign(shape, source, target, fail) ==
    IF shape.kind = "text"
    THEN IF Strip(shape.text) = ""
         THEN [shape |-> shape, calls |-> <<>>, raised |-> FALSE]
         ELSE [shape |-> shape, calls |-> <<shape.text>>, raised |-> fail = 1]
    ELSE IF shape.kind = "frame"
    THEN IF FrameTextStripped(shape.paragraphs) = ""
         THEN [shape |-> shape, calls |-> <<>>, raised |-> FALSE]
         ELSE LET ps == shape.paragraphs
                  todo == SelectSeq([j \in 1..Len(ps) |-> j],
                                    LAMBDA j : Strip(ps[j]) # "")
                  reached == IF fail = 0 THEN todo ELSE SubSeq(todo, 1, fail)
              IN  [shape |-> shape,
                   calls |-> [c \in 1..Len(reached) |-> ps[reached[c]]],
                   raised |-> fail # 0]
    ELSE [shape |-> shape, calls |-> <<>>, raised |-> FALSE]

\* TryShape without the strip() tests: blank texts are sent too
TryShape_NoStrip(shape, source, target, fail) ==
    IF shape.kind = "text"
    THEN IF fail = 1
         THEN [shape |-> shape, calls |-> <<shape.text>>, raised |-> TRUE]
         ELSE [shape |-> [shape EXCEPT !.text = Translate(source, target, @)],
               calls |-> <<shape.text>>, raised |-> FALSE]
    ELSE IF shape.kind = "frame"
    THEN LET ps == shape.paragraphs
             todo == [j \in 1..Len(ps) |-> j]
             reached == IF fail = 0 THEN todo ELSE SubSeq(todo, 1, fail)
             done == IF fail = 0 THEN todo ELSE SubSeq(todo, 1, fail - 1)
             isDone(j) == \E d \in 1..Len(done) : done[d] = j
         IN  [shape |-> [shape EXCEPT !.paragraphs =
                           [j \in 1..Len(ps) |->
                              IF isDone(j)
                              THEN Translate(source, target, ps[j])
                              ELSE ps[j]]],
              calls |-> [c \in 1..Len(reached) |-> ps[reached[c]]],
              raised |-> fail # 0]
    ELSE [shape |-> shape, calls |-> <<>>, raised |-> FALSE]

\* lines 48-55 for one shape; fail = 0: nothing raises, fail = j > 0: the
\* j-th call of translate raises, or returns a value whose assignment
\* raises (either way the text stays as it was).  The result: the shape,
\* the texts passed to translate, and whether an exception reached line 56.
TryShape(shape, source, target, fail) ==
    IF shape.kind = "text"
    THEN IF Strip(shape.text) = ""
         THEN [shape |-> shape, calls |-> <<>>, raised |-> FALSE]
         ELSE IF fail = 1
         THEN [shape |-> shape, calls |-> <<shape.text>>, raised |-> TRUE]
         ELSE [shape |-> [shape EXCEPT !.text = Translate(source, target, @)],
               calls |-> <<shape.text>>, raised |-> FALSE]
    ELSE IF shape.kind = "frame"
    THEN IF FrameTextStripped(shape.paragraphs) = ""
         THEN [shape |-> shape, calls |-> <<>>, raised |-> FALSE]
         ELSE LET ps == shape.paragraphs
                  todo == SelectSeq([j \in 1..Len(ps) |-> j],
                                    LAMBDA j : Strip(ps[j]) # "")
                  \* the paragraphs reached by a call of translate
                  reached == IF fail = 0 THEN todo ELSE SubSeq(todo, 1, fail)
                  done == IF fail = 0 THEN todo ELSE SubSeq(todo, 1, fail - 1)
                  isDone(j) == \E d \in 1..Len(done) : done[d] = j
              IN  [shape |-> [shape EXCEPT !.paragraphs =
                                [j \in 1..Len(ps) |->
                                   IF isDone(j)
                                   THEN Translate(source, target, ps[j])
                                   ELSE ps[j]]],
                   calls |-> [c \in 1..Len(reached) |-> ps[reached[c]]],
                   raised |-> fail # 0]
    ELSE [shape |-> shape, calls |-> <<>>, raised |-> FALSE]

\* the number of translate calls the shape makes when nothing raises
CallCount(shape) ==
    IF shape.kind = "text" THEN (IF Strip(shape.text) = "" THEN 0 ELSE 1)
    ELSE IF shape.kind = "frame" /\ FrameTextStripped(shape.paragraphs) # ""
    THEN Cardinality({j \in 1..Len(shape.paragraphs) :
                         Strip(shape.paragraphs[j]) # ""})
    ELSE 0

\* WorkerShape without the inner try: the exception of a shape reaches
\* the outer handler
WorkerShape_AbortOnFailure(i) ==
    /\ threads[i].pc = "loop"
    /\ threads[i].processed_shapes < threads[i].total_shapes
    /\ LET th == threads[i]
           pos == th.processed_shapes + 1
           shape == ShapeAt(th.prs, pos)
       IN  \E fail \in 0..CallCount(shape) :
             LET res == TryShape(shape, th.source, th.target, fail)
                 processed == th.processed_shapes + 1
             IN  IF res.raised
                 THEN Emit([th EXCEPT !.prs = PutShape(@, pos, res.shape),
                                      !.calls = Append(@, res.calls),
                                      !.pc = "done", !.raised = "shape"],
                           i, Error("ShapeError"))
                 ELSE Emit([th EXCEPT !.prs = PutShape(@, pos, res.shape),
                                      !.calls = Append(@, res.calls),
                                      !.processed_shapes = processed],
                           i, Progress(Percent(processed, th.total_shapes)))
    /\ UNCHANGED <<ui_vars, gestures, fs>>

\* WorkerShape with the progress emitted inside the try: none for a shape
\* that raises
WorkerShape_EmitInTry(i) ==
    /\ threads[i].pc = "loop"
    /\ threads[i].processed_shapes < threads[i].total_shapes
    /\ LET th == threads[i]
           pos == th.processed_shapes + 1
           shape == ShapeAt(th.prs, pos)
       IN  \E fail \in 0..CallCount(shape) :
             LET res == TryShape(shape, th.source, th.target, fail)
                 processed == th.processed_shapes + 1
                 after == [th EXCEPT !.prs = PutShape(@, pos, res.shape),
                                     !.calls = Append(@, res.calls),
                                     !.caught = IF res.raised THEN @ \cup {pos} ELSE @,
                                     !.processed_shapes = processed]
             IN  IF res.raised
                 THEN /\ threads' = [threads EXCEPT ![i] = after]
                      /\ events' = events
                 ELSE Emit(after, i, Progress(Percent(processed, th.total_shapes)))
    /\ UNCHANGED <<ui_vars, gestures, fs>>

\* WorkerShape setting the progress bar itself, from the worker thread
WorkerShape_SetsProgressBar(i) ==
    /\ threads[i].pc = "loop"
    /\ threads[i].processed_shapes < threads[i].total_shapes
    /\ LET th == threads[i]
           pos == th.processed_shapes + 1
           shape == ShapeAt(th.prs, pos)
       IN  \E fail \in 0..CallCount(shape) :
             LET res == TryShape(shape, th.source, th.target, fail)
                 processed == th.processed_shapes + 1
                 after == [th EXCEPT !.prs = PutShape(@, pos, res.shape),
                                     !.calls = Append(@, res.calls),
                                     !.caught = IF res.raised THEN @ \cup {pos} ELSE @,
                                     !.processed_shapes = processed]
             IN  IF th.total_shapes = 0
                 THEN \* ZeroDivisionError at line 61, outside the inner try
                      Emit([after EXCEPT !.pc = "done", !.raised = "division"],
                           i, Error("division by zero"))
                 ELSE Emit(after, i, Progress(Percent(processed, th.total_shapes)))
    /\ progress_bar' = Percent(threads[i].processed_shapes + 1,
                             threads[i].total_shapes)
    /\ UNCHANGED <<input_file_label, output_file_label, source_lang, target_lang,
                   translate_button, dialogs, gestures, fs>>

\* lines 44-61: one iteration of the loop over the shapes
WorkerShape(i) ==
    /\ threads[i].pc = "loop"
    /\ threads[i].processed_shapes < threads[i].total_shapes
    /\ LET th == threads[i]
           pos == th.processed_shapes + 1
           shape == ShapeAt(th.prs, pos)
       IN  \E fail \in 0..CallCount(shape) :
             LET res == TryShape(shape, th.source, th.target, fail)
                 processed == th.processed_shapes + 1
                 after == [th EXCEPT !.prs = PutShape(@, pos, res.shape),
                                     !.calls = Append(@, res.calls),
                                     !.caught = IF res.raised THEN @ \cup {pos} ELSE @,
                                     !.processed_shapes = processed]
             IN  IF th.total_shapes = 0
                 THEN \* ZeroDivisionError at line 61, outside the inner try
                      Emit([after EXCEPT !.pc = "done", !.raised = "division"],
                           i, Error("division by zero"))
                 ELSE Emit(after, i, Progress(Percent(processed, th.total_shapes)))
    /\ UNCHANGED <<ui_vars, gestures, fs>>

\* WorkerSave with finished emitted on every path, after the Error too
WorkerSave_ErrorThenFinished(i) ==
    /\ threads[i].pc = "loop"
    /\ threads[i].processed_shapes = threads[i].total_shapes
    /\ LET th == threads[i]
       IN  \E outcome \in {"ok", "raises"} :
             IF outcome = "ok"
             THEN /\ fs' = [fs EXCEPT ![th.output_file] = Pptx(th.prs)]
                  /\ Emit([th EXCEPT !.pc = "done", !.save_calls = 1], i, Finished)
             ELSE /\ fs' = fs
                  /\ threads' = [threads EXCEPT ![i] =
                        [th EXCEPT !.pc = "done", !.save_calls = 1,
                                   !.raised = "save",
                                   !.emitted = @ \o <<Error("SaveError"), Finished>>]]
                  /\ events' = events \o <<[run |-> i, note |-> Error("SaveError")],
                                            [run |-> i, note |-> Finished]>>
    /\ UNCHANGED <<ui_vars, gestures>>

\* WorkerSave with the exception of the save swallowed: Finished all the same
WorkerSave_Swallow(i) ==
    /\ threads[i].pc = "loop"
    /\ threads[i].processed_shapes = threads[i].total_shapes
    /\ LET th == threads[i]
       IN  \E outcome \in {"ok", "raises"} :
             /\ fs' = IF outcome = "ok"
                       THEN [fs EXCEPT ![th.output_file] = Pptx(th.prs)]
                       ELSE fs
             /\ Emit([th EXCEPT !.pc = "done", !.save_calls = 1,
                                 !.raised = IF outcome = "ok" THEN "none" ELSE "save"],
                     i, Finished)
    /\ UNCHANGED <<ui_vars, gestures>>

\* WorkerSave saving to the path the window displays when the save runs
WorkerSave_ToLabel(i) ==
    /\ threads[i].pc = "loop"
    /\ threads[i].processed_shapes = threads[i].total_shapes
    /\ LET th == threads[i]
       IN  \E outcome \in {"ok", "raises"} :
             IF outcome = "ok"
             THEN /\ fs' = [fs EXCEPT ![output_file_label] = Pptx(th.prs)]
                  /\ Emit([th EXCEPT !.pc = "done", !.save_calls = 1], i, Finished)
             ELSE /\ fs' = fs
                  /\ Emit([th EXCEPT !.pc = "done", !.save_calls = 1,
                                      !.raised = "save"],
                          i, Error("SaveError"))
    /\ UNCHANGED <<ui_vars, gestures>>

\* lines 63-67: save and report; a save that raises leaves the file system
\* as it was
WorkerSave(i) ==
    /\ threads[i].pc = "loop"
    /\ threads[i].processed_shapes = threads[i].total_shapes
    /\ LET th == threads[i]
       IN  \E outcome \in {"ok", "raises"} :
             IF outcome = "ok"
             THEN /\ fs' = [fs EXCEPT ![th.output_file] = Pptx(th.prs)]
                  /\ Emit([th EXCEPT !.pc = "done", !.save_calls = 1], i, Finished)
             ELSE /\ fs' = fs
                  /\ Emit([th EXCEPT !.pc = "done", !.save_calls = 1,
                                      !.raised = "save"],
                          i, Error("SaveError"))
    /\ UNCHANGED <<ui_vars, gestures>>
(***************************************************************************)
(* PPTXTranslatorApp.                                                      *)
(***************************************************************************)
Warning == [kind |-> "warning", text |-> "Please select both input and output files."]
Information(path) == [kind |-> "information", text |-> path]
Critical(message) == [kind |-> "critical", text |-> message]

\* the window takes clicks only while no modal message box is open
Interactive == dialogs = <<>>

\* lines 127-130; file_name = "" when the chooser is cancelled
select_input_file ==
    /\ Interactive
    /\ \E file_name \in Paths \cup {""} :
         /\ file_name # "" => gestures < MaxGestures
         /\ input_file_label' = IF file_name # "" THEN file_name ELSE input_file_label
         /\ gestures' = IF file_name # "" THEN gestures + 1 ELSE gestures
    /\ UNCHANGED <<output_file_label, source_lang, target_lang, progress_bar,
                   translate_button, dialogs, threads, events, fs>>

\* select_output_file without the test of line 135: a cancelled dialog
\* clears the label
select_output_file_NoCheck ==
    /\ Interactive
    /\ \E file_name \in Paths \cup {""} :
         /\ file_name # "" => gestures < MaxGestures
         /\ output_file_label' = file_name
         /\ gestures' = IF file_name # "" THEN gestures + 1 ELSE gestures
    /\ UNCHANGED <<input_file_label, source_lang, target_lang, progress_bar,
                   translate_button, dialogs, threads, events, fs>>

\* lines 133-136
select_output_file ==
    /\ Interactive
    /\ \E file_name \in Paths \cup {""} :
         /\ file_name # "" => gestures < MaxGestures
         /\ output_file_label' = IF file_name # "" THEN file_name ELSE output_file_label
         /\ gestures' = IF file_name # "" THEN gestures + 1 ELSE gestures
    /\ UNCHANGED <<input_file_label, source_lang, target_lang, progress_bar,
                   translate_button, dialogs, threads, events, fs>>

\* the user picks another entry of the "From" combo box (lines 102-107)
select_source_lang ==
    /\ Interactive
    /\ gestures < MaxGestures
    /\ \E lang \in Languages \ {source_lang} : source_lang' = lang
    /\ gestures' = gestures + 1
    /\ UNCHANGED <<input_file_label, output_file_label, target_lang, progress_bar,
                   translate_button, dialogs, threads, events, fs>>

\* the user picks another entry of the "To" combo box (lines 103-108)
select_target_lang ==
    /\ Interactive
    /\ gestures < MaxGestures
    /\ \E lang \in Languages \ {target_lang} : target_lang' = lang
    /\ gestures' = gestures + 1
    /\ UNCHANGED <<input_file_label, output_file_label, source_lang, progress_bar,
                   translate_button, dialogs, threads, events, fs>>

\* line 142 with "and" for "or"
PathsSelected_And(input_file, output_file) ==
    ~ (input_file = NoInputFile /\ output_file = NoOutputFile)

\* line 142
PathsSelected(input_file, output_file) ==
    ~ (input_file = NoInputFile \/ output_file = NoOutputFile)

\* translate_pptx without line 154: the button stays enabled
translate_pptx_NoDisable ==
    /\ Interactive
    /\ translate_button
    /\ gestures < MaxGestures
    /\ gestures' = gestures + 1
    /\ LET input_file == input_file_label
           output_file == output_file_label
       IN  IF ~ PathsSelected(input_file, output_file)
           THEN /\ dialogs' = Append(dialogs, Warning)
                /\ UNCHANGED <<translate_button, progress_bar, threads>>
           ELSE /\ threads' = Append(threads,
                       NewThread(input_file, output_file, source_lang, target_lang))
                /\ progress_bar' = 0
                /\ UNCHANGED <<translate_button, dialogs>>
    /\ UNCHANGED <<input_file_label, output_file_label, source_lang, target_lang,
                   events, fs>>

\* translate_pptx without line 155: the progress of the last run stays
translate_pptx_NoReset ==
    /\ Interactive
    /\ translate_button
    /\ gestures < MaxGestures
    /\ gestures' = gestures + 1
    /\ LET input_file == input_file_label
           output_file == output_file_label
       IN  IF ~ PathsSelected(input_file, output_file)
           THEN /\ dialogs' = Append(dialogs, Warning)
                /\ UNCHANGED <<translate_button, progress_bar, threads>>
           ELSE /\ threads' = Append(threads,
                       NewThread(input_file, output_file, source_lang, target_lang))
                /\ translate_button' = FALSE
                /\ UNCHANGED <<progress_bar, dialogs>>
    /\ UNCHANGED <<input_file_label, output_file_label, source_lang, target_lang,
                   events, fs>>

\* lines 139-156, run by a click on the enabled Translate button
translate_pptx ==
    /\ Interactive
    /\ translate_button
    /\ gestures < MaxGestures
    /\ gestures' = gestures + 1
    /\ LET input_file == input_file_label
           output_file == output_file_label
       IN  IF ~ PathsSelected(input_file, output_file)
           THEN /\ dialogs' = Append(dialogs, Warning)
                /\ UNCHANGED <<translate_button, progress_bar, threads>>
           ELSE /\ threads' = Append(threads,
                       NewThread(input_file, output_file, source_lang, target_lang))
                /\ translate_button' = FALSE
                /\ progress_bar' = 0
                /\ UNCHANGED dialogs
    /\ UNCHANGED <<input_file_label, output_file_label, source_lang, target_lang,
                   events, fs>>

\* the user closes the message box on top
dismiss ==
    /\ dialogs # <<>>
    /\ dialogs' = SubSeq(dialogs, 1, Len(dialogs) - 1)
    /\ UNCHANGED <<input_file_label, output_file_label, source_lang, target_lang,
                   progress_bar, translate_button, threads, events, gestures, fs>>

\* the UI thread takes the next queued signal of a worker
Take(sig) ==
    /\ events # <<>>
    /\ Head(events).note.sig = sig
    /\ events' = Tail(events)
    /\ threads' = [threads EXCEPT ![Head(events).run].handled =
                                        Append(@, Head(events).note)]

\* lines 159-160
update_progress ==
    /\ Take("progress")
    /\ progress_bar' = Head(events).note.value
    /\ UNCHANGED <<input_file_label, output_file_label, source_lang, target_lang,
                   translate_button, dialogs, gestures, fs>>

\* lines 163-165
translation_finished ==
    /\ Take("finished")
    /\ translate_button' = TRUE
    /\ dialogs' = Append(dialogs, Information(output_file_label))
    /\ UNCHANGED <<input_file_label, output_file_label, source_lang, target_lang,
                   progress_bar, gestures, fs>>

\* translation_error without line 169: the button stays disabled
translation_error_NoEnable ==
    /\ Take("error")
    /\ dialogs' = Append(dialogs, Critical(Head(events).note.message))
    /\ UNCHANGED <<input_file_label, output_file_label, source_lang, target_lang,
                   progress_bar, translate_button, gestures, fs>>

\* lines 168-170
translation_error ==
    /\ Take("error")
    /\ translate_button' = TRUE
    /\ dialogs' = Append(dialogs, Critical(Head(events).note.message))
    /\ UNCHANGED <<input_file_label, output_file_label, source_lang, target_lang,
                   progress_bar, gestures, fs>>

(***************************************************************************)
(* The program: the window as initUI leaves it, a presentation at a.pptx,  *)
(* nothing at b.pptx.                                                      *)
(***************************************************************************)
InitWindow ==
    /\ input_file_label = NoInputFile
    /\ output_file_label = NoOutputFile
    /\ source_lang = DefaultSource
    /\ target_lang = DefaultTarget
    /\ progress_bar = 0
    /\ translate_button = TRUE
    /\ dialogs = <<>>

Init ==
    /\ InitWindow
    /\ threads = <<>>
    /\ events = <<>>
    /\ gestures = 0
    /\ \E d \in WindowDocs :
         fs = [p \in Paths |-> IF p = "a.pptx" THEN Pptx(d) ELSE MissingFile]

Worker ==
    \E i \in 1..Len(threads) : WorkerStart(i) \/ WorkerShape(i) \/ WorkerSave(i)

Next ==
    \/ select_input_file
    \/ select_output_file
    \/ select_source_lang
    \/ select_target_lang
    \/ translate_pptx
    \/ dismiss
    \/ update_progress
    \/ translation_finished
    \/ translation_error
    \/ \E i \in 1..Len(threads) : WorkerStart(i)
    \/ \E i \in 1..Len(threads) : WorkerShape(i)
    \/ \E i \in 1..Len(threads) : WorkerSave(i)

Spec == Init /\ [][Next]_vars

(***************************************************************************)
(* One run of the worker, from TranslatorThread.start(): the window as     *)
(* translate_pptx leaves it, any presentation of the bounds at a.pptx.     *)
(***************************************************************************)
Started(input_file, output_file) ==
    /\ input_file_label = input_file
    /\ output_file_label = output_file
    /\ source_lang = DefaultSource
    /\ target_lang = DefaultTarget
    /\ progress_bar = 0
    /\ translate_button = FALSE
    /\ dialogs = <<>>
    /\ threads = <<NewThread(input_file, output_file, DefaultSource, DefaultTarget)>>
    /\ events = <<>>
    /\ gestures = 3

InitRun ==
    /\ \E input_file \in Paths, output_file \in Paths :
         Started(input_file, output_file)
    /\ \E file \in {Pptx(d) : d \in Docs} \cup {CorruptFile} :
         fs = [p \in Paths |-> IF p = "a.pptx" THEN file ELSE MissingFile]

NextRun ==
    \/ WorkerStart(1)
    \/ WorkerShape(1)
    \/ WorkerSave(1)
    \/ update_progress
    \/ translation_finished
    \/ translation_error
    \/ dismiss

SpecRun == InitRun /\ [][NextRun]_vars

(***************************************************************************)
(* One run on a presentation of one slide with n pictures, n up to         *)
(* MaxTotal: the progress values of long documents.                        *)
(***************************************************************************)
InitPct ==
    /\ Started("a.pptx", "b.pptx")
    /\ \E n \in 1..MaxTotal :
         fs = [p \in Paths |-> IF p = "a.pptx"
                                 THEN Pptx(<<[s \in 1..n |-> Picture]>>)
                                 ELSE MissingFile]

SpecPct == InitPct /\ [][NextRun]_vars

(***************************************************************************)
(* Properties of one run.                                                  *)
(***************************************************************************)
ProgressOf(em) == SelectSeq(em, LAMBDA n : n.sig = "progress")
TerminalsOf(em) == SelectSeq(em, IsTerminal)

\* the presentation was opened: neither line 39 nor line 40 raised
Opened(th) == th.pc # "start" /\ th.raised \notin {"translator", "open"}

\* what lines 48-55 make of a shape when nothing raises
Translated(shape, th) == TryShape(shape, th.source, th.target, 0).shape

\* C1: the signals a run has emitted are Progress events with non-decreasing
\* values, then at most one terminal event, which is the last signal; a run
\* has ended exactly when it has emitted its one terminal event (Finished or
\* Error), and nothing follows it.
C1_NotificationSequence ==
    \A i \in 1..Len(threads) :
        LET em == threads[i].emitted
        IN  /\ \A j \in 1..Len(em) :
                 IF j < Len(em) THEN em[j].sig = "progress"
                 ELSE threads[i].pc = "done" <=> IsTerminal(em[j])
            /\ Len(TerminalsOf(em)) = (IF threads[i].pc = "done" THEN 1 ELSE 0)
            /\ \A j, k \in 1..Len(em) :
                 j < k /\ em[j].sig = "progress" /\ em[k].sig = "progress"
                     => em[j].value <= em[k].value

\* a run of two shapes, one of which raised, that ended with Error on save
C1_Witness ==
    \E i \in 1..Len(threads) :
        /\ threads[i].pc = "done"
        /\ threads[i].caught # {}
        /\ Len(threads[i].emitted) = 3
        /\ threads[i].emitted[3] = Error("SaveError")

\* C2: a shape whose translation or assignment raises does not abort the
\* run: a Progress is emitted for every shape processed, failing or not;
\* every processed shape that did not raise holds its translation, also
\* after a failing one; a fatal error after the open comes only from the
\* save of a fully processed document; and a run whose save returns ends
\* with Finished whatever set of shapes raised.
C2_PartialFailureTolerance ==
    \A i \in 1..Len(threads) :
        LET th == threads[i]
        IN  Opened(th) =>
              /\ Len(ProgressOf(th.emitted)) = th.processed_shapes
              /\ th.caught \subseteq 1..th.processed_shapes
              /\ \A pos \in 1..th.processed_shapes :
                   pos \notin th.caught =>
                     ShapeAt(th.prs, pos) = Translated(ShapeAt(th.opened, pos), th)
              /\ th.pc = "done" =>
                   /\ th.processed_shapes = th.total_shapes
                   /\ th.raised \in {"none", "save"}
                   /\ Saved(th) => th.emitted[Len(th.emitted)] = Finished

\* the first shape raised, the second one was translated, the run Finished
C2_Witness ==
    \E i \in 1..Len(threads) :
        LET th == threads[i]
        IN  /\ th.pc = "done"
            /\ th.caught = {1}
            /\ th.total_shapes = 2
            /\ ShapeAt(th.prs, 2) # ShapeAt(th.opened, 2)
            /\ th.emitted = <<Progress(50), Progress(100), Finished>>

\* C3: when prs.save raises, the run has emitted one Progress per shape of
\* the document and then exactly one Error, carrying the message of the save
\* failure, and no Finished.
C3_SaveFailure ==
    \A i \in 1..Len(threads) :
        LET th == threads[i]
            em == th.emitted
        IN  th.raised = "save" =>
              /\ th.processed_shapes = th.total_shapes
              /\ Len(em) = th.total_shapes + 1
              /\ \A j \in 1..th.total_shapes : em[j].sig = "progress"
              /\ em[Len(em)] = Error("SaveError")
              /\ \A j \in 1..Len(em) : em[j] # Finished

\* a save failure after two translated shapes
C3_Witness ==
    \E i \in 1..Len(threads) :
        /\ threads[i].raised = "save"
        /\ threads[i].total_shapes = 2
        /\ threads[i].caught = {}
        /\ \A pos \in 1..2 : threads[i].calls[pos] # <<>>

\* C4: when the translator cannot be constructed or the presentation cannot
\* be opened, the run ends having emitted exactly one signal, the Error with
\* the message of that failure; translate was never called, save was never
\* called, no file was written, and the exception ended in the Error signal
\* (the run is done, nothing else was raised).
C4_StartFailure ==
    \A i \in 1..Len(threads) :
        LET th == threads[i]
        IN  /\ th.raised = "translator" =>
                 th.emitted = <<Error("TranslatorError")>>
            /\ th.raised = "open" => th.emitted = <<Error("OpenError")>>
            /\ th.raised \in {"translator", "open"} =>
                 /\ th.pc = "done"
                 /\ th.calls = <<>>
                 /\ th.save_calls = 0
                 /\ th.processed_shapes = 0
                 /\ (Len(threads) = 1 /\ th.output_file = "b.pptx")
                        => fs["b.pptx"] = MissingFile

\* the file at the input path is not a presentation and the Error is out
C4_Witness ==
    \E i \in 1..Len(threads) :
        /\ threads[i].raised = "open"
        /\ fs[threads[i].input_file].kind = "corrupt"
        /\ threads[i].emitted = <<Error("OpenError")>>

\* C5 as stated: a run on a presentation without shapes ends with exactly
\* one Finished and no Progress.
C5_Original ==
    \A i \in 1..Len(threads) :
        LET th == threads[i]
        IN  (Opened(th) /\ th.total_shapes = 0 /\ th.pc = "done")
                => th.emitted = <<Finished>>

\* C5 amended: a run on a presentation without shapes emits no Progress and
\* never divides by zero; it ends with exactly one signal, Finished when the
\* save returns and the Error of the save when it raises.
C5_ZeroShapes ==
    \A i \in 1..Len(threads) :
        LET th == threads[i]
        IN  (Opened(th) /\ th.total_shapes = 0) =>
              /\ ProgressOf(th.emitted) = <<>>
              /\ th.raised # "division"
              /\ th.pc = "done" =>
                   /\ Saved(th) => th.emitted = <<Finished>>
                   /\ ~ Saved(th) => th.emitted = <<Error("SaveError")>>

\* two slides without shapes, saved
C5_Witness ==
    \E i \in 1..Len(threads) :
        /\ Opened(threads[i])
        /\ Len(threads[i].opened) = 2
        /\ threads[i].total_shapes = 0
        /\ threads[i].emitted = <<Finished>>

\* C6: a run on a presentation of N > 0 shapes emits one Progress per
\* processed shape, translated, failed or skipped as empty alike, so never
\* more than N; when it ends it has emitted N of them, the last being
\* Progress(100), directly before the terminal event.
C6_OneProgressPerShape ==
    \A i \in 1..Len(threads) :
        LET th == threads[i]
            em == th.emitted
            N == th.total_shapes
        IN  (Opened(th) /\ N > 0) =>
              /\ Len(ProgressOf(em)) = th.processed_shapes
              /\ th.processed_shapes <= N
              /\ \A j \in 1..th.processed_shapes : em[j].sig = "progress"
              /\ th.pc = "done" =>
                   /\ Len(em) = N + 1
                   /\ em[N] = Progress(100)
                   /\ IsTerminal(em[N + 1])

\* two shapes, one skipped as blank and one that raised, and the run ended
C6_Witness ==
    \E i \in 1..Len(threads) :
        LET th == threads[i]
        IN  /\ th.pc = "done"
            /\ th.total_shapes = 2
            /\ th.caught = {2}
            /\ ShapeAt(th.opened, 1) = TextShape(" ")
            /\ th.emitted[2] = Progress(100)

\* C7: every Progress value is floor(processed * 100 / total_shapes), with
\* 1 <= processed <= total_shapes, hence in 0..100.
C7_ProgressValue ==
    \A i \in 1..Len(threads) :
        LET th == threads[i]
            pr == ProgressOf(th.emitted)
        IN  /\ th.processed_shapes <= th.total_shapes
            /\ Len(pr) <= th.processed_shapes
            /\ \A j \in 1..Len(pr) :
                 /\ pr[j].value \in 0..100
                 /\ pr[j].value = (j * 100) \div th.total_shapes

(***************************************************************************)
(* Properties of the window.                                               *)
(***************************************************************************)
\* the worker has signals the window has not handled to the terminal one
Active(i) == TerminalsOf(threads[i].handled) = <<>>

\* the fairness of the two threads: a worker step that can be taken is
\* taken (every library call returns or raises), a queued signal is
\* delivered
Fairness ==
    /\ WF_vars(Worker)
    /\ WF_vars(update_progress)
    /\ WF_vars(translation_finished)
    /\ WF_vars(translation_error)

FairSpec == Spec /\ Fairness

\* C8: while the input or the output path is the placeholder, a click on
\* Translate opens the warning box and nothing else, and no step at all
\* creates a worker, queues a signal, touches a file, changes the button's
\* enablement or the progress value.
C8_StartGuard ==
    [][(input_file_label = NoInputFile \/ output_file_label = NoOutputFile)
          => /\ UNCHANGED <<threads, events, fs, translate_button, progress_bar>>
             /\ translate_pptx =>
                  /\ dialogs' = Append(dialogs, Warning)
                  /\ UNCHANGED <<input_file_label, output_file_label,
                                 source_lang, target_lang>>]_vars

\* the warning is open with the input chosen and the output not
C8_Witness ==
    /\ dialogs = <<Warning>>
    /\ input_file_label \in Paths
    /\ output_file_label = NoOutputFile
    /\ threads = <<>>

\* C9: at most one worker has not had its terminal signal handled.
C9_OneActiveWorker ==
    Cardinality({i \in 1..Len(threads) : Active(i)}) <= 1

\* a second worker runs after the first one's terminal signal was handled
C9_Witness ==
    /\ Len(threads) = 2
    /\ ~ Active(1)
    /\ Active(2)
    /\ threads[2].pc = "loop"

\* C10: a start that passes the guard disables the Translate button, and a
\* disabled button is eventually enabled again, after Finished and after
\* Error alike.
C10_ButtonReenabled ==
    /\ [][(translate_pptx /\ Len(threads') > Len(threads))
             => ~ translate_button']_vars
    /\ (~ translate_button) ~> translate_button

\* the button is enabled again after a run that ended with Error
C10_Witness ==
    /\ translate_button
    /\ Len(threads) >= 1
    /\ threads[Len(threads)].handled # <<>>
    /\ threads[Len(threads)].handled[Len(threads[Len(threads)].handled)].sig = "error"

\* C11: a file changes only in the step in which a worker that has processed
\* every shape saves and emits Finished, the file that changes is the one at
\* that worker's output path, and it is not the file at its input path: the
\* run never modifies its input file.
C11_SideEffects ==
    [][\A p \in Paths :
         fs'[p] # fs[p] =>
            \E i \in 1..Len(threads) :
               /\ threads[i].pc = "loop"
               /\ threads[i].processed_shapes = threads[i].total_shapes
               /\ threads'[i].emitted = Append(threads[i].emitted, Finished)
               /\ p = threads[i].output_file
               /\ p # threads[i].input_file]_vars

\* the texts of a shape that lines 48-55 look at: its text, or the texts of
\* the paragraphs of its text frame, or none
Units(shape) ==
    IF shape.kind = "text" THEN <<shape.text>>
    ELSE IF shape.kind = "frame" THEN shape.paragraphs
    ELSE <<>>

\* the texts that pass the strip() tests of lines 49 and 54, in order
Sendable(shape) == SelectSeq(Units(shape), LAMBDA t : Strip(t) # "")

\* the rank of unit j among the units of us that pass the strip() test
Rank(us, j) == Cardinality({k \in 1..j : Strip(us[k]) # ""})

\* C12 as stated: of every processed shape, each text (the shape's text,
\* or each paragraph of its text frame) whose trimmed text is non-empty is
\* sent to the translator, by itself, and holds the result, unless its
\* own translation or assignment raised; blank texts are neither sent nor
\* changed, and a shape with neither is unchanged.
C12_Original ==
    \A i \in 1..Len(threads) :
        LET th == threads[i]
        IN  Opened(th) =>
              \A pos \in 1..th.processed_shapes :
                 LET before == ShapeAt(th.opened, pos)
                     after == ShapeAt(th.prs, pos)
                     us == Units(before)
                     left == {j \in 1..Len(us) :
                                /\ Strip(us[j]) # ""
                                /\ Units(after)[j] # Translate(th.source, th.target, us[j])}
                 IN  /\ after.kind = before.kind
                     /\ Len(Units(after)) = Len(us)
                     /\ th.calls[pos] = Sendable(before)
                     /\ \A j \in 1..Len(us) :
                           Strip(us[j]) = "" => Units(after)[j] = us[j]
                     /\ Cardinality(left) <= (IF pos \in th.caught THEN 1 ELSE 0)

\* C12, amended: the non-blank texts of a processed shape are sent to the
\* translator one by one, in order, up to the first one whose translation
\* or assignment raises; those before it hold the translator's result, it
\* and every text after it are as they were, as are the blank texts, which
\* are never sent; a shape with neither text nor text frame is unchanged.
C12_TranslationRule ==
    \A i \in 1..Len(threads) :
        LET th == threads[i]
        IN  Opened(th) =>
              \A pos \in 1..th.processed_shapes :
                 LET before == ShapeAt(th.opened, pos)
                     after == ShapeAt(th.prs, pos)
                     us == Units(before)
                     sent == th.calls[pos]
                     translated == IF pos \in th.caught
                                   THEN Len(sent) - 1 ELSE Len(sent)
                 IN  /\ after.kind = before.kind
                     /\ Len(sent) <= Len(Sendable(before))
                     /\ sent = SubSeq(Sendable(before), 1, Len(sent))
                     /\ pos \notin th.caught => sent = Sendable(before)
                     /\ pos \in th.caught => sent # <<>>
                     /\ \A c \in 1..Len(sent) : Strip(sent[c]) # ""
                     /\ Units(after) =
                           [j \in 1..Len(us) |->
                              IF Strip(us[j]) # "" /\ Rank(us, j) <= translated
                              THEN Translate(th.source, th.target, us[j])
                              ELSE us[j]]

\* a text frame with a blank paragraph was translated, and in a second
\* text frame the second call raised after the first paragraph was done
C12_Witness ==
    \E i \in 1..Len(threads) :
        LET th == threads[i]
        IN  /\ th.processed_shapes = 2
            /\ th.opened = <<<<FrameShape(<<"Hello", "">>)>>,
                             <<FrameShape(<<"Hello", "Hello">>)>>>>
            /\ th.prs = <<<<FrameShape(<<"Hola", "">>)>>,
                          <<FrameShape(<<"Hola", "Hello">>)>>>>
            /\ th.caught = {2}
            /\ th.calls = <<<<"Hello">>, <<"Hello", "Hello">>>>

\* every shape of the document has a direct text that is not blank
AllDirectText(slides) ==
    \A s \in 1..Len(slides) : \A j \in 1..Len(slides[s]) :
        slides[s][j].kind = "text" /\ Strip(slides[s][j].text) # ""

\* C13: a run over a document whose shapes all have non-blank direct text,
\* in which no call raised and the save succeeded, has persisted at its
\* output path the document whose shapes hold, shape by shape, the
\* translator's result for the original text, and has emitted one Progress
\* per shape, the last one Progress(100), and then exactly one Finished.
C13_RoundTrip ==
    \A i \in 1..Len(threads) :
        LET th == threads[i]
            em == th.emitted
            n == th.total_shapes
        IN  (/\ Opened(th)
             /\ AllDirectText(th.opened)
             /\ th.caught = {}
             /\ Saved(th)) =>
               /\ fs[th.output_file] =
                     Pptx([s \in 1..Len(th.opened) |->
                             [j \in 1..Len(th.opened[s]) |->
                                TextShape(Translate(th.source, th.target,
                                                    th.opened[s][j].text))]])
               /\ Len(em) = n + 1
               /\ \A k \in 1..n : em[k].sig = "progress"
               /\ n >= 1 => em[n] = Progress(Hundred)
               /\ em[n + 1] = Finished

\* two text boxes were translated and saved, and the run has finished
C13_Witness ==
    \E i \in 1..Len(threads) :
        /\ threads[i].opened = <<<<TextShape("Hello"), TextShape("Hello")>>>>
        /\ threads[i].caught = {}
        /\ Saved(threads[i])
        /\ fs[threads[i].output_file] =
              Pptx(<<<<TextShape("Hola"), TextShape("Hola")>>>>)
        /\ threads[i].emitted = <<Progress(50), Progress(Hundred), Finished>>

\* C14: the step that handles the Finished of a run enables the Translate
\* button and opens a success notice naming the path that run saved its
\* document to, whatever was selected while the run was in flight.
C14_SuccessNotice ==
    [][\A i \in 1..Len(threads) :
         threads'[i].handled = Append(threads[i].handled, Finished) =>
            /\ translate_button'
            /\ dialogs' = Append(dialogs, Information(threads[i].output_file))
            /\ fs[threads[i].output_file] = Pptx(threads[i].prs)]_vars

\* C15: a step of a worker (one that changes a worker's own state, the
\* queue of signals grows, or a file is written) leaves the whole state of
\* the window unchanged; the progress value changes only when a Progress is
\* handled, to the value of that Progress, or when a run is started, to 0;
\* the button is enabled only when a Finished or an Error is handled, and
\* disabled only when a run is started.
C15_UiOwnership ==
    [][/\ ((\/ \E i \in 1..Len(threads) :
                 [threads'[i] EXCEPT !.handled = <<>>]
                    # [threads[i] EXCEPT !.handled = <<>>]
            \/ Len(events') > Len(events)
            \/ fs' # fs) => UNCHANGED ui_vars)
       /\ progress_bar' # progress_bar =>
             \/ \E i \in 1..Len(threads) :
                   threads'[i].handled =
                      Append(threads[i].handled, Progress(progress_bar'))
             \/ Len(threads') = Len(threads) + 1 /\ progress_bar' = 0
       /\ (translate_button' /\ ~ translate_button) =>
             \E i \in 1..Len(threads) :
                \/ threads'[i].handled = Append(threads[i].handled, Finished)
                \/ \E n \in {threads[i].emitted[k] : k \in 1..Len(threads[i].emitted)} :
                      /\ n.sig = "error"
                      /\ threads'[i].handled = Append(threads[i].handled, n)
       /\ (translate_button /\ ~ translate_button') =>
             Len(threads') = Len(threads) + 1]_vars

\* a worker has emitted a Progress above the displayed value, which is
\* still the 0 of the start, while the button is disabled
C15_Witness ==
    \E i \in 1..Len(threads) :
        /\ threads[i].emitted # <<>>
        /\ threads[i].emitted[1] = Progress(50)
        /\ threads[i].handled = <<>>
        /\ progress_bar = 0
        /\ ~ translate_button

\* C16: the signals of a run are handled in the order of their emission
\* (what was handled is a prefix of what was emitted); each handled
\* Progress sets the displayed value to its own value, which is never below
\* the value displayed before; at most one terminal signal of a run is
\* handled, and only when every Progress of the run has been handled; and
\* every run that was started gets its terminal signal handled.
C16_OrderedDelivery ==
    /\ [](\A i \in 1..Len(threads) :
            LET th == threads[i]
            IN  /\ Len(th.handled) <= Len(th.emitted)
                /\ th.handled = SubSeq(th.emitted, 1, Len(th.handled))
                /\ Len(TerminalsOf(th.handled)) <= 1
                /\ ~ Active(i) =>
                      /\ th.pc = "done"
                      /\ th.handled = th.emitted
                      /\ ProgressOf(th.handled) = ProgressOf(th.emitted))
    /\ [][\A i \in 1..Len(threads) :
            \A k \in 1..Len(threads[i].emitted) :
               (/\ threads[i].emitted[k].sig = "progress"
                /\ Len(threads[i].handled) = k - 1
                /\ Len(threads'[i].handled) = k) =>
                  /\ progress_bar' = threads[i].emitted[k].value
                  /\ progress_bar' >= progress_bar]_vars
    /\ (\E i \in 1..Len(threads) : Active(i))
          ~> (\A i \in 1..Len(threads) : ~ Active(i))

\* both Progress signals of a run and then its Finished were handled
C16_Witness ==
    \E i \in 1..Len(threads) :
        /\ threads[i].handled = <<Progress(50), Progress(Hundred), Finished>>
        /\ progress_bar = Hundred

\* C17: a click on Translate with both paths selected disables the button,
\* sets the progress to 0 and starts one worker, whose input path, output
\* path, source and target language are the window's at the click; a worker
\* is started by no other step; the job of a worker never changes; and the
\* worker opens the file at its job's input path, translates with its
\* job's languages and saves to its job's output path, whatever the window
\* displays by then.
C17_JobSnapshot ==
    [][/\ (translate_pptx /\ PathsSelected(input_file_label, output_file_label))
             => Len(threads') = Len(threads) + 1
       /\ Len(threads') # Len(threads) =>
             /\ translate_pptx
             /\ PathsSelected(input_file_label, output_file_label)
             /\ ~ translate_button'
             /\ progress_bar' = 0
             /\ threads' = Append(threads, threads'[Len(threads')])
             /\ LET th == threads'[Len(threads')]
                IN  /\ th.pc = "start"
                    /\ th.input_file = input_file_label
                    /\ th.output_file = output_file_label
                    /\ th.source = source_lang
                    /\ th.target = target_lang
       /\ \A i \in 1..Len(threads) :
             LET th == threads[i]
                 after == threads'[i]
                 pos == after.processed_shapes
             IN  /\ after.input_file = th.input_file
                 /\ after.output_file = th.output_file
                 /\ after.source = th.source
                 /\ after.target = th.target
                 /\ (th.pc = "start" /\ after.pc = "loop") =>
                       after.prs = fs[th.input_file].slides
                 /\ (pos = th.processed_shapes + 1 /\ pos \notin after.caught) =>
                       Units(ShapeAt(after.prs, pos)) =
                          [j \in 1..Len(Units(ShapeAt(th.prs, pos))) |->
                             IF Strip(Units(ShapeAt(th.prs, pos))[j]) # ""
                             THEN Translate(th.source, th.target,
                                            Units(ShapeAt(th.prs, pos))[j])
                             ELSE Units(ShapeAt(th.prs, pos))[j]]
                 /\ after.save_calls # th.save_calls =>
                       \A p \in Paths :
                          fs'[p] = IF p = th.output_file /\ after.raised # "save"
                                   THEN Pptx(th.prs) ELSE fs[p]]_vars

\* the output path displayed was changed while the worker ran, and the
\* worker has saved the translation to the output path of its job
C17_Witness ==
    \E i \in 1..Len(threads) :
        /\ Saved(threads[i])
        /\ threads[i].output_file # output_file_label
        /\ threads[i].calls = <<<<>>, <<"Hello">>>>
        /\ fs[threads[i].output_file] = Pptx(threads[i].prs)
        /\ fs[output_file_label] # Pptx(threads[i].prs)

\* C18: a step of select_input_file changes at most the displayed input
\* path, a step of select_output_file at most the displayed output path;
\* a displayed path changes only to a path a file dialog returned on
\* confirmation, never to the empty name of a cancelled dialog, and in that
\* step the other path, the languages, the progress, the button, the
\* message boxes, the workers, their signals and the files stay as they
\* were: no worker is started.
C18_SelectionFrame ==
    [][/\ select_input_file =>
             UNCHANGED <<output_file_label, source_lang, target_lang,
                         progress_bar, translate_button, dialogs, threads,
                         events, fs>>
       /\ select_output_file =>
             UNCHANGED <<input_file_label, source_lang, target_lang,
                         progress_bar, translate_button, dialogs, threads,
                         events, fs>>
       /\ input_file_label' # input_file_label =>
             /\ input_file_label' \in Paths
             /\ UNCHANGED <<output_file_label, source_lang, target_lang,
                            progress_bar, translate_button, dialogs, threads,
                            events, fs>>
       /\ output_file_label' # output_file_label =>
             /\ output_file_label' \in Paths
             /\ UNCHANGED <<input_file_label, source_lang, target_lang,
                            progress_bar, translate_button, dialogs, threads,
                            events, fs>>]_vars

\* another input file was selected while the one worker was running
C18_Witness ==
    /\ Len(threads) = 1
    /\ Active(1)
    /\ input_file_label \in Paths
    /\ input_file_label # threads[1].input_file
    /\ output_file_label = threads[1].output_file

\* C19: once a later run has been started, every signal of an earlier run
\* has been handled, its terminal signal included, and none is left in the
\* queue; and the displayed progress is the 0 of the last start or the value
\* of the last Progress handled of the run started last.
C19_NoStaleProgress ==
    /\ \A j \in 1..Len(threads) : \A i \in 1..(j - 1) :
          /\ ~ Active(i)
          /\ threads[i].pc = "done"
          /\ threads[i].handled = threads[i].emitted
    /\ \A e \in 1..Len(events) : events[e].run = Len(threads)
    /\ Len(threads) >= 1 =>
          LET shown == ProgressOf(threads[Len(threads)].handled)
          IN  progress_bar = IF shown = <<>> THEN 0
                             ELSE shown[Len(shown)].value

\* the first run ended at 100, the second run shows its own first Progress
C19_Witness ==
    /\ Len(threads) = 2
    /\ threads[1].handled = <<Progress(50), Progress(Hundred), Finished>>
    /\ threads[2].handled = <<Progress(50)>>
    /\ progress_bar = 50

====
